---- MODULE Spec2Model ----
(***************************************************************************)
(* Finding normalisation and aggregation of the cloud security scanner:    *)
(* the severity classifier and output parsers of the scanner adapters, the *)
(* per-provider summary fold of the orchestrator and the risk level of the *)
(* report generator.                                                       *)
(*                                                                         *)
(* Python strings that the code inspects character by character (lower(),  *)
(* upper(), substring tests) are sequences of one-character strings.  JSON *)
(* values are tagged records: [t |-> "str", s |-> chars],                  *)
(* [t |-> "num", n |-> int], [t |-> "null"], [t |-> "dict", d |-> fields], *)
(* [t |-> "list", l |-> items], and [t |-> "map", m |-> entries] for an    *)
(* object keyed by check name.  A Python dict is a function whose DOMAIN   *)
(* is the set of keys that are present.                                    *)
(*                                                                         *)
(* Seven specifications: SpecClassify applies _determine_severity to       *)
(* bounded result dicts, SpecRisk applies _calculate_risk_level to bounded *)
(* counts, Spec runs _scan_provider for one provider (Prowler, then        *)
(* CloudSploit) or one Steampipe scan over bounded raw outputs, SpecScan   *)
(* is one orchestrator whose scan() is called several times with lists of  *)
(* provider names, SpecMain is the command line program (one scan() call,  *)
(* get_summary() and the exit status), SpecReport is that program followed *)
(* by the report renderer's _extract_summary, and SpecVerdict applies the  *)
(* exit status of main and the risk level to the same bounded counts.      *)
(***************************************************************************)
EXTENDS Integers, Sequences, FiniteSets, TLC

VARIABLES
    result,            \* the dict handed to _determine_severity
    severity,          \* the value _determine_severity returned
    overall,           \* the summary handed to _calculate_risk_level
    risk,              \* the value _calculate_risk_level returned
    enabled,           \* scanners whose config entry has enabled set
    pc,                \* the call that runs next
    raw,               \* scanner name -> what the tool's run left behind
    provider_results,  \* provider_results['prowler'|'cloudsploit'] of _scan_provider
    steampipe_results, \* what SteampipeScanner.scan returned
    summary,           \* provider_results['summary'] of _scan_provider
    config,            \* config['providers']: provider name -> its 'enabled'
    providers,         \* the providers list that scan() iterates over
    index,             \* position of the for loop of scan() in providers
    self_results,      \* self.results, in insertion order
    runs,              \* scan() calls made on this orchestrator
    overall_summary,   \* what get_summary() returned to main
    exit_status,       \* the status main handed to sys.exit
    report             \* what the report renderer extracted from a run's results

\* the state of the orchestrator across scan() calls and of main
scan_vars ==
    <<config, providers, index, self_results, runs, overall_summary,
      exit_status, report>>

vars ==
    <<result, severity, overall, risk, enabled, pc, raw, provider_results,
      steampipe_results, summary, config, providers, index, self_results,
      runs, overall_summary, exit_status, report>>

----------------------------------------------------------------------------
(* Bounds *)

MaxCount == 10      \* largest per-severity count of an overall summary
MaxPhrases == 1     \* phrases joined into one message text
MaxItems == 2       \* elements of one raw output
MaxRuns == 2        \* scan() calls on one orchestrator
MaxRequests == 2    \* provider entries held plus providers requested

----------------------------------------------------------------------------
(* Strings *)

SP == <<" ">>

UpperOf ==
    [c \in {"a","b","c","d","e","f","g","h","i","j","k","l","m","n","o","p",
            "q","r","s","t","u","v","w","x","y","z"} |->
       CASE c = "a" -> "A" [] c = "b" -> "B" [] c = "c" -> "C" [] c = "d" -> "D"
         [] c = "e" -> "E" [] c = "f" -> "F" [] c = "g" -> "G" [] c = "h" -> "H"
         [] c = "i" -> "I" [] c = "j" -> "J" [] c = "k" -> "K" [] c = "l" -> "L"
         [] c = "m" -> "M" [] c = "n" -> "N" [] c = "o" -> "O" [] c = "p" -> "P"
         [] c = "q" -> "Q" [] c = "r" -> "R" [] c = "s" -> "S" [] c = "t" -> "T"
         [] c = "u" -> "U" [] c = "v" -> "V" [] c = "w" -> "W" [] c = "x" -> "X"
         [] c = "y" -> "Y" [] c = "z" -> "Z"]

LowerChar(c) ==
    IF \E l \in DOMAIN UpperOf : UpperOf[l] = c
    THEN CHOOSE l \in DOMAIN UpperOf : UpperOf[l] = c
    ELSE c

UpperChar(c) == IF c \in DOMAIN UpperOf THEN UpperOf[c] ELSE c

\* str.lower()
Lower(s) == [i \in 1..Len(s) |-> LowerChar(s[i])]

\* str.upper()
Upper(s) == [i \in 1..Len(s) |-> UpperChar(s[i])]

\* keyword in text
Contains(keyword, text) ==
    \E i \in 0..(Len(text) - Len(keyword)) :
        SubSeq(text, i + 1, i + Len(keyword)) = keyword

CRITICAL == <<"c","r","i","t","i","c","a","l">>
HIGH == <<"h","i","g","h">>
MEDIUM == <<"m","e","d","i","u","m">>
LOW == <<"l","o","w">>

Severities == {CRITICAL, HIGH, MEDIUM, LOW}

FAIL == <<"F","A","I","L">>
WARN == <<"W","A","R","N">>
UNKNOWN == <<"U","N","K","N","O","W","N">>
OK == <<"O","K">>
PASS == <<"P","A","S","S">>
S_alarm == <<"a","l","a","r","m">>
S_ok == <<"o","k">>
S_skip == <<"s","k","i","p">>
S_info == <<"i","n","f","o">>
S_error == <<"e","r","r","o","r">>
S_fail == <<"f","a","i","l">>
S_NA == <<"N","/","A">>

S_exposed == <<"e","x","p","o","s","e","d">>
S_public == <<"p","u","b","l","i","c">>
S_encryption_disabled ==
    <<"e","n","c","r","y","p","t","i","o","n"," ","d","i","s","a","b","l","e","d">>
S_mfa_disabled == <<"m","f","a"," ","d","i","s","a","b","l","e","d">>
S_no_encryption == <<"n","o"," ","e","n","c","r","y","p","t","i","o","n">>
S_open_to_world == <<"o","p","e","n"," ","t","o"," ","w","o","r","l","d">>

S_vulnerable == <<"v","u","l","n","e","r","a","b","l","e">>
S_insecure == <<"i","n","s","e","c","u","r","e">>
S_weak == <<"w","e","a","k">>
S_misconfigured == <<"m","i","s","c","o","n","f","i","g","u","r","e","d">>
S_missing_encryption ==
    <<"m","i","s","s","i","n","g"," ","e","n","c","r","y","p","t","i","o","n">>
S_unencrypted == <<"u","n","e","n","c","r","y","p","t","e","d">>

S_logging == <<"l","o","g","g","i","n","g">>
S_monitoring == <<"m","o","n","i","t","o","r","i","n","g">>
S_tag == <<"t","a","g">>
S_label == <<"l","a","b","e","l">>

critical_keywords ==
    {S_exposed, S_public, S_encryption_disabled, S_mfa_disabled,
     S_no_encryption, S_open_to_world}

high_keywords ==
    {S_vulnerable, S_insecure, S_weak, S_misconfigured, S_missing_encryption,
     S_unencrypted}

low_keywords == {S_logging, S_monitoring, S_tag, S_label}

----------------------------------------------------------------------------
(* JSON values and dicts *)

JStr(s) == [t |-> "str", s |-> s]
JNum(n) == [t |-> "num", n |-> n]
JNull == [t |-> "null"]
JDict(d) == [t |-> "dict", d |-> d]
JList(l) == [t |-> "list", l |-> l]
Absent == [t |-> "absent"]

\* the dict that holds the keys of full whose value is not Absent
Dict(full) ==
    [k \in {kk \in DOMAIN full : full[kk].t # "absent"} |-> full[k]]

\* dict.get(key, default)
Get(d, key, default) == IF key \in DOMAIN d THEN d[key] ELSE default

----------------------------------------------------------------------------
(* CloudSploitScanner._determine_severity *)

\* the explicit severity is a string that lower-cases to one of the four
HasValidSeverity(res) ==
    /\ "severity" \in DOMAIN res
    /\ res["severity"].t = "str"
    /\ Lower(res["severity"].s) \in Severities

\* result['severity'].lower() and result.get(k, '').lower() raise
\* AttributeError on a value that is not a string
determine_severity_raises(res) ==
    \/ "severity" \in DOMAIN res /\ res["severity"].t # "str"
    \/ /\ ~HasValidSeverity(res)
       /\ \E k \in {"plugin", "title", "message"} :
              k \in DOMAIN res /\ res[k].t # "str"

\* text = f"{plugin_name} {title} {message}", each lower-cased
SeverityText(res) ==
    Lower(Get(res, "plugin", JStr(<<>>)).s) \o SP
        \o Lower(Get(res, "title", JStr(<<>>)).s) \o SP
        \o Lower(Get(res, "message", JStr(<<>>)).s)

\* determine_severity with the keyword scan before the explicit severity
determine_severity_keywords_first(res) ==
    LET text == SeverityText(res)
    IN  IF \E keyword \in critical_keywords : Contains(keyword, text)
        THEN CRITICAL
        ELSE IF \E keyword \in high_keywords : Contains(keyword, text)
        THEN HIGH
        ELSE IF \E keyword \in low_keywords : Contains(keyword, text)
        THEN LOW
        ELSE IF HasValidSeverity(res) THEN Lower(res["severity"].s)
        ELSE MEDIUM

\* determine_severity with the high tier scanned before the critical tier
determine_severity_high_first(res) ==
    IF HasValidSeverity(res)
    THEN Lower(res["severity"].s)
    ELSE LET text == SeverityText(res)
         IN  IF \E keyword \in high_keywords : Contains(keyword, text)
             THEN HIGH
             ELSE IF \E keyword \in critical_keywords : Contains(keyword, text)
             THEN CRITICAL
             ELSE IF \E keyword \in low_keywords : Contains(keyword, text)
             THEN LOW
             ELSE MEDIUM

\* determine_severity with the low tier scanned before the high tier
determine_severity_low_first(res) ==
    IF HasValidSeverity(res)
    THEN Lower(res["severity"].s)
    ELSE LET text == SeverityText(res)
         IN  IF \E keyword \in critical_keywords : Contains(keyword, text)
             THEN CRITICAL
             ELSE IF \E keyword \in low_keywords : Contains(keyword, text)
             THEN LOW
             ELSE IF \E keyword \in high_keywords : Contains(keyword, text)
             THEN HIGH
             ELSE MEDIUM

\* determine_severity with low as the default
determine_severity_default_low(res) ==
    IF HasValidSeverity(res)
    THEN Lower(res["severity"].s)
    ELSE LET text == SeverityText(res)
         IN  IF \E keyword \in critical_keywords : Contains(keyword, text)
             THEN CRITICAL
             ELSE IF \E keyword \in high_keywords : Contains(keyword, text)
             THEN HIGH
             ELSE LOW

determine_severity(res) ==
    IF HasValidSeverity(res)
    THEN Lower(res["severity"].s)
    ELSE LET text == SeverityText(res)
         IN  IF \E keyword \in critical_keywords : Contains(keyword, text)
             THEN CRITICAL
             ELSE IF \E keyword \in high_keywords : Contains(keyword, text)
             THEN HIGH
             ELSE IF \E keyword \in low_keywords : Contains(keyword, text)
             THEN LOW
             ELSE MEDIUM

----------------------------------------------------------------------------
(* HTMLReportGenerator._calculate_risk_level *)

\* calculate_risk_level with high > 5 in the place of high >= 5
calculate_risk_level_above_five(s) ==
    IF s.critical > 0 THEN "Critical Risk"
    ELSE IF s.high > 5 THEN "High Risk"
    ELSE IF s.high > 0 \/ s.medium >= 10 THEN "Medium Risk"
    ELSE IF s.medium > 0 \/ s.low > 0 THEN "Low Risk"
    ELSE "No Issues"

calculate_risk_level(s) ==
    IF s.critical > 0 THEN "Critical Risk"
    ELSE IF s.high >= 5 THEN "High Risk"
    ELSE IF s.high > 0 \/ s.medium >= 10 THEN "Medium Risk"
    ELSE IF s.medium > 0 \/ s.low > 0 THEN "Low Risk"
    ELSE "No Issues"

----------------------------------------------------------------------------
(* Adapter results *)

\* What a tool's run left behind: exec is how the subprocess ended ("ok",
\* "timeout", "exit" for a non-zero exit code, "raise" for an exception that
\* leaves scan()), kind says whether an output file exists ("missing"),
\* holds no JSON ("invalid") or holds the JSON value data ("json").
RawFile(exec, kind, data) == [exec |-> exec, kind |-> kind, data |-> data]
NoRaw == RawFile("none", "missing", JNull)

\* a top-level JSON object keyed by check name, in file order
JMap(entries) == [t |-> "map", m |-> entries]
Entry(key, value) == [key |-> key, value |-> value]

\* {'error': ...}
ErrorResult(msg) == [error |-> msg]
ParseError == ErrorResult("Failed to parse results")

\* provider_results[scanner] = None
NoneResult == [none |-> TRUE]

\* 'error' in results
IsError(r) == "error" \in DOMAIN r

\* the dict the CloudSploit and Prowler parsers start from and return when
\* there is no output (output_file/output_dir, a path, is left out)
EmptySummary ==
    [failed |-> 0, critical |-> 0, high |-> 0, medium |-> 0, low |-> 0,
     findings |-> <<>>]

\* summary[severity] += 1 for a severity that is one of the four keys
Bump(s, sev) ==
    CASE sev = CRITICAL -> [s EXCEPT !.critical = @ + 1]
      [] sev = HIGH -> [s EXCEPT !.high = @ + 1]
      [] sev = MEDIUM -> [s EXCEPT !.medium = @ + 1]
      [] sev = LOW -> [s EXCEPT !.low = @ + 1]

\* the if/elif chain on severity of the Prowler and Steampipe parsers
CountSeverity(s, sev) == IF sev \in Severities THEN Bump(s, sev) ELSE s

----------------------------------------------------------------------------
(* CloudSploitScanner._parse_cloudsploit_output *)

\* only FAIL and WARN are retained
cloudsploit_retained_fail_warn(status) ==
    status.t = "str" /\ status.s \in {FAIL, WARN}

\* status in ['FAIL', 'WARN', 'UNKNOWN']
cloudsploit_retained(status) ==
    status.t = "str" /\ status.s \in {FAIL, WARN, UNKNOWN}

\* an UNKNOWN result is counted in failed and given no severity
cloudsploit_result_unknown_unclassified(acc, res, status, plugin) ==
    IF IsError(acc) THEN acc
    ELSE IF ~cloudsploit_retained(status) THEN acc
    ELSE IF status.s = UNKNOWN THEN [acc EXCEPT !.failed = @ + 1]
    ELSE IF determine_severity_raises(res) THEN ParseError
    ELSE LET sev == determine_severity(res)
             counted == Bump([acc EXCEPT !.failed = @ + 1], sev)
         IN  [counted EXCEPT !.findings =
                 Append(@, [plugin |-> plugin, severity |-> sev,
                            status |-> status.s])]

\* a result whose severity cannot be determined is skipped and the traversal
\* goes on
cloudsploit_result_skips_raising(acc, res, status, plugin) ==
    IF IsError(acc) THEN acc
    ELSE IF ~cloudsploit_retained(status) THEN acc
    ELSE IF determine_severity_raises(res) THEN acc
    ELSE LET sev == determine_severity(res)
             counted == Bump([acc EXCEPT !.failed = @ + 1], sev)
         IN  [counted EXCEPT !.findings =
                 Append(@, [plugin |-> plugin, severity |-> sev,
                            status |-> status.s])]

\* the body of the three traversals for one result: acc is the summary so
\* far, or the error result once an exception was raised
cloudsploit_result(acc, res, status, plugin) ==
    IF IsError(acc) THEN acc
    ELSE IF ~cloudsploit_retained(status) THEN acc
    ELSE IF determine_severity_raises(res) THEN ParseError
    ELSE LET sev == determine_severity(res)
             counted == Bump([acc EXCEPT !.failed = @ + 1], sev)
         IN  [counted EXCEPT !.findings =
                 Append(@, [plugin |-> plugin, severity |-> sev,
                            status |-> status.s])]

RECURSIVE cloudsploit_array(_, _)
\* for result in data (data is a list)
cloudsploit_array(items, acc) ==
    IF items = <<>> THEN acc
    ELSE LET res == Head(items)
         IN  cloudsploit_array(Tail(items),
                 IF res.t # "dict" THEN acc
                 ELSE cloudsploit_result(acc, res.d,
                          Get(res.d, "status", JStr(UNKNOWN)),
                          Get(res.d, "plugin", JStr(S_NA))))

RECURSIVE cloudsploit_nested_default_pass(_, _, _)
\* a nested result without a status is read as PASS
cloudsploit_nested_default_pass(results, plugin_name, acc) ==
    IF results = <<>> THEN acc
    ELSE LET res == Head(results)
         IN  cloudsploit_nested_default_pass(Tail(results), plugin_name,
                 IF IsError(acc) THEN acc
                 ELSE IF res.t # "dict" THEN ParseError
                 ELSE cloudsploit_result(acc, res.d,
                          Get(res.d, "status", JStr(PASS)),
                          JStr(plugin_name)))

RECURSIVE cloudsploit_nested(_, _, _)
\* for result in plugin_data.get('results', [])
cloudsploit_nested(results, plugin_name, acc) ==
    IF results = <<>> THEN acc
    ELSE LET res == Head(results)
         IN  cloudsploit_nested(Tail(results), plugin_name,
                 IF IsError(acc) THEN acc
                 ELSE IF res.t # "dict" THEN ParseError
                 ELSE cloudsploit_result(acc, res.d,
                          Get(res.d, "status", JStr(UNKNOWN)),
                          JStr(plugin_name)))

\* one (plugin_name, plugin_data) of data.items()
cloudsploit_entry(acc, plugin_name, plugin_data) ==
    IF IsError(acc) THEN acc
    ELSE IF plugin_data.t # "dict" THEN acc
    ELSE IF "status" \in DOMAIN plugin_data.d
    THEN cloudsploit_result(acc, plugin_data.d, plugin_data.d["status"],
                            JStr(plugin_name))
    ELSE IF "results" \in DOMAIN plugin_data.d
    THEN IF plugin_data.d["results"].t # "list" THEN ParseError
         ELSE cloudsploit_nested(plugin_data.d["results"].l, plugin_name, acc)
    ELSE acc

RECURSIVE cloudsploit_map(_, _)
\* for plugin_name, plugin_data in data.items() (data is a dict)
cloudsploit_map(entries, acc) ==
    IF entries = <<>> THEN acc
    ELSE cloudsploit_map(Tail(entries),
             cloudsploit_entry(acc, Head(entries).key, Head(entries).value))

\* the missing output file reaches open(), which raises
parse_cloudsploit_output_missing_error(file) ==
    IF file.kind = "missing" THEN ParseError
    ELSE IF file.kind = "invalid" THEN ParseError
    ELSE IF file.data.t = "list" THEN cloudsploit_array(file.data.l, EmptySummary)
    ELSE IF file.data.t = "map" THEN cloudsploit_map(file.data.m, EmptySummary)
    ELSE EmptySummary

parse_cloudsploit_output(file) ==
    IF file.kind = "missing" THEN EmptySummary
    ELSE IF file.kind = "invalid" THEN ParseError
    ELSE IF file.data.t = "list" THEN cloudsploit_array(file.data.l, EmptySummary)
    ELSE IF file.data.t = "map" THEN cloudsploit_map(file.data.m, EmptySummary)
    ELSE EmptySummary

\* CloudSploitScanner.scan with _execute_cloudsploit: a non-zero exit code is
\* only logged, a timeout or a missing binary returns an error result
cloudsploit_scan(file) ==
    IF file.exec \in {"ok", "exit"} THEN parse_cloudsploit_output(file)
    ELSE ErrorResult("Scan failed")

----------------------------------------------------------------------------
(* ProwlerScanner._parse_prowler_output *)

\* the loop body for one finding
prowler_finding(acc, finding) ==
    IF IsError(acc) THEN acc
    ELSE IF finding.t # "dict" THEN ParseError
    ELSE LET sc == Get(finding.d, "status_code", JStr(<<>>))
             sv == Get(finding.d, "severity", JStr(<<>>))
         IN  IF sc.t # "str" \/ sv.t # "str" THEN ParseError
             ELSE IF Upper(sc.s) = FAIL
             THEN [CountSeverity(acc, Lower(sv.s)) EXCEPT !.findings =
                      Append(@, [severity |-> Lower(sv.s),
                                 status |-> Upper(sc.s)])]
             ELSE acc

RECURSIVE prowler_findings(_, _)
\* for finding in findings
prowler_findings(findings, acc) ==
    IF findings = <<>> THEN acc
    ELSE prowler_findings(Tail(findings), prowler_finding(acc, Head(findings)))

\* failed_count left at 0
prowler_failed_count_zero(findings) == 0

\* failed_count = len(findings)
prowler_failed_count(findings) == Len(findings)

\* json.load() failing is swallowed and the output read as no findings
parse_prowler_output_invalid_empty(file) ==
    IF file.kind = "missing" THEN EmptySummary
    ELSE IF file.kind = "invalid" THEN EmptySummary
    ELSE IF file.data.t = "list"
    THEN prowler_findings(file.data.l,
             [EmptySummary EXCEPT !.failed = prowler_failed_count(file.data.l)])
    ELSE IF file.data.t = "map" /\ file.data.m = <<>> THEN EmptySummary
    ELSE IF file.data.t = "str" /\ file.data.s = <<>> THEN EmptySummary
    ELSE ParseError

\* a JSON object or string iterates over its keys or characters, which have
\* no get(); null and numbers have no len()
parse_prowler_output(file) ==
    IF file.kind = "missing" THEN EmptySummary
    ELSE IF file.kind = "invalid" THEN ParseError
    ELSE IF file.data.t = "list"
    THEN prowler_findings(file.data.l,
             [EmptySummary EXCEPT !.failed = prowler_failed_count(file.data.l)])
    ELSE IF file.data.t = "map" /\ file.data.m = <<>> THEN EmptySummary
    ELSE IF file.data.t = "str" /\ file.data.s = <<>> THEN EmptySummary
    ELSE ParseError

\* ProwlerScanner.scan with _execute_prowler: an exit code other than 0 and 3
\* and a timeout return an error result
prowler_scan(file) ==
    IF file.exec = "ok" THEN parse_prowler_output(file)
    ELSE ErrorResult("Scan failed")

----------------------------------------------------------------------------
(* SteampipeScanner._parse_steampipe_output *)

SteampipeSummary ==
    [total_checks |-> 0, passed |-> 0, failed |-> 0, skipped |-> 0,
     error |-> 0, alarm |-> 0, ok |-> 0, info |-> 0, critical |-> 0,
     high |-> 0, medium |-> 0, low |-> 0, findings |-> <<>>]

\* a raised exception replaces the summary, which has the counter 'error', by
\* the error result, which has no counter 'failed'
Raised(acc) == "failed" \notin DOMAIN acc

RECURSIVE steampipe_findings(_, _, _)
\* for result in control.get('results', [])
steampipe_findings(results, sev, acc) ==
    IF results = <<>> THEN acc
    ELSE LET res == Head(results)
         IN  steampipe_findings(Tail(results), sev,
                 IF Raised(acc) THEN acc
                 ELSE IF res.t # "dict" THEN ParseError
                 ELSE IF Get(res.d, "status", JNull) = JStr(S_alarm)
                 THEN [acc EXCEPT !.findings =
                          Append(@, [severity |-> sev, status |-> S_fail])]
                 ELSE acc)

\* a skipped control is counted as a failed one, under its severity
steampipe_control_skip_fails(acc, control) ==
    IF Raised(acc) THEN acc
    ELSE IF control.t # "dict" THEN ParseError
    ELSE LET status == Get(control.d, "status", JStr(S_error))
             sev == Get(control.d, "severity", JStr(MEDIUM))
             results == Get(control.d, "results", JList(<<>>))
             seen == [acc EXCEPT !.total_checks = @ + 1]
         IN  IF status = JStr(S_ok)
             THEN [seen EXCEPT !.passed = @ + 1, !.ok = @ + 1]
             ELSE IF status = JStr(S_alarm)
             THEN IF sev.t # "str" \/ results.t # "list" THEN ParseError
                  ELSE steampipe_findings(results.l, sev.s,
                           CountSeverity(
                               [seen EXCEPT !.failed = @ + 1, !.alarm = @ + 1],
                               Lower(sev.s)))
             ELSE IF status = JStr(S_skip)
             THEN CountSeverity(
                      [seen EXCEPT !.failed = @ + 1, !.skipped = @ + 1],
                      Lower(sev.s))
             ELSE IF status = JStr(S_info)
             THEN [seen EXCEPT !.info = @ + 1]
             ELSE [seen EXCEPT !.error = @ + 1]

\* the loop body for one control
steampipe_control(acc, control) ==
    IF Raised(acc) THEN acc
    ELSE IF control.t # "dict" THEN ParseError
    ELSE LET status == Get(control.d, "status", JStr(S_error))
             sev == Get(control.d, "severity", JStr(MEDIUM))
             results == Get(control.d, "results", JList(<<>>))
             seen == [acc EXCEPT !.total_checks = @ + 1]
         IN  IF status = JStr(S_ok)
             THEN [seen EXCEPT !.passed = @ + 1, !.ok = @ + 1]
             ELSE IF status = JStr(S_alarm)
             THEN IF sev.t # "str" \/ results.t # "list" THEN ParseError
                  ELSE steampipe_findings(results.l, sev.s,
                           CountSeverity(
                               [seen EXCEPT !.failed = @ + 1, !.alarm = @ + 1],
                               Lower(sev.s)))
             ELSE IF status = JStr(S_skip)
             THEN [seen EXCEPT !.skipped = @ + 1]
             ELSE IF status = JStr(S_info)
             THEN [seen EXCEPT !.info = @ + 1]
             ELSE [seen EXCEPT !.error = @ + 1]

RECURSIVE steampipe_controls(_, _)
\* for control in controls
steampipe_controls(controls, acc) ==
    IF controls = <<>> THEN acc
    ELSE steampipe_controls(Tail(controls),
             steampipe_control(acc, Head(controls)))

RECURSIVE steampipe_groups(_, _)
\* for group in groups
steampipe_groups(groups, acc) ==
    IF groups = <<>> THEN acc
    ELSE LET group == Head(groups)
             controls == IF group.t = "dict"
                         THEN Get(group.d, "controls", JList(<<>>))
                         ELSE JNull
         IN  steampipe_groups(Tail(groups),
                 IF Raised(acc) THEN acc
                 ELSE IF controls.t # "list" THEN ParseError
                 ELSE steampipe_controls(controls.l, acc))

parse_steampipe_output(file) ==
    IF file.kind = "missing"
    THEN [total_checks |-> 0, passed |-> 0, failed |-> 0]
    ELSE IF file.kind = "invalid" THEN ParseError
    ELSE IF file.data.t # "dict" THEN ParseError
    ELSE LET groups == Get(file.data.d, "groups", JList(<<>>))
         IN  IF groups.t # "list" THEN ParseError
             ELSE steampipe_groups(groups.l, SteampipeSummary)

\* SteampipeScanner.scan with _execute_steampipe: a non-zero exit code and a
\* timeout return an error result
steampipe_scan(file) ==
    IF file.exec = "ok" THEN parse_steampipe_output(file)
    ELSE ErrorResult("Scan failed")

----------------------------------------------------------------------------
(* ScannerOrchestrator._update_summary *)

\* = written for +=: the counters of the last result replace the summary
update_summary_assigns(s, results) ==
    IF IsError(results) THEN s
    ELSE IF "failed" \in DOMAIN results
    THEN [failed |-> Get(results, "failed", 0),
          critical |-> Get(results, "critical", 0),
          high |-> Get(results, "high", 0),
          medium |-> Get(results, "medium", 0),
          low |-> Get(results, "low", 0)]
    ELSE s

\* an error result clears the summary instead of leaving it alone
update_summary_error_resets(s, results) ==
    IF IsError(results)
    THEN [failed |-> 0, critical |-> 0, high |-> 0, medium |-> 0, low |-> 0]
    ELSE IF "failed" \in DOMAIN results
    THEN [failed |-> s.failed + Get(results, "failed", 0),
          critical |-> s.critical + Get(results, "critical", 0),
          high |-> s.high + Get(results, "high", 0),
          medium |-> s.medium + Get(results, "medium", 0),
          low |-> s.low + Get(results, "low", 0)]
    ELSE s

update_summary(s, results) ==
    IF IsError(results) THEN s
    ELSE IF "failed" \in DOMAIN results
    THEN [failed |-> s.failed + Get(results, "failed", 0),
          critical |-> s.critical + Get(results, "critical", 0),
          high |-> s.high + Get(results, "high", 0),
          medium |-> s.medium + Get(results, "medium", 0),
          low |-> s.low + Get(results, "low", 0)]
    ELSE s

----------------------------------------------------------------------------
(* Values of the variables a specification does not use *)

NotYet == <<>>
NoDict == <<>>
NoRisk == ""
ZeroCounts == [failed |-> 0, critical |-> 0, high |-> 0, medium |-> 0, low |-> 0]

ClassifierIdle == result = NoDict /\ severity = NotYet
RiskIdle == overall = ZeroCounts /\ risk = NoRisk

NoConfig == <<>>
NoSummary == <<>>
NoExit == -1
\* no report has been rendered: run 0
NoReport == [run |-> 0]

\* no orchestrator has been constructed
OrchestratorIdle ==
    /\ config = NoConfig
    /\ providers = <<>>
    /\ index = 0
    /\ self_results = <<>>
    /\ runs = 0
    /\ overall_summary = NoSummary
    /\ exit_status = NoExit
    /\ report = NoReport

----------------------------------------------------------------------------
(* The classifier applied to bounded inputs *)

T_Public == <<"P","u","b","l","i","c">>
T_missing == <<"m","i","s","s","i","n","g">>
T_bucket == <<"b","u","c","k","e","t">>
T_world == <<"w","o","r","l","d">>
T_missing_tag == <<"m","i","s","s","i","n","g"," ","t","a","g">>
T_weak_exposed_logging_bucket ==
    <<"w","e","a","k"," ","e","x","p","o","s","e","d"," ",
      "l","o","g","g","i","n","g"," ","b","u","c","k","e","t">>
T_open == <<"o","p","e","n">>
T_to == <<"t","o">>
T_bucketPublic == <<"b","u","c","k","e","t","P","u","b","l","i","c">>
T_Untagged == <<"U","n","t","a","g","g","e","d">>
T_High == <<"H","i","g","h">>
T_CRITICAL == <<"C","R","I","T","I","C","A","L">>
T_info == <<"i","n","f","o">>

Phrases ==
    critical_keywords \cup high_keywords \cup low_keywords
        \cup {T_Public, T_missing, T_bucket, T_world, T_missing_tag,
              T_weak_exposed_logging_bucket}

RECURSIVE JoinPhrases(_)
\* " ".join(ps)
JoinPhrases(ps) ==
    IF Len(ps) = 0 THEN <<>>
    ELSE IF Len(ps) = 1 THEN ps[1]
    ELSE ps[1] \o SP \o JoinPhrases(Tail(ps))

Messages ==
    {JoinPhrases(ps) : ps \in UNION {[1..n -> Phrases] : n \in 0..MaxPhrases}}

ExplicitSeverities ==
    {Absent} \cup {JStr(s) : s \in {T_High, T_CRITICAL, MEDIUM, LOW, T_info, <<>>}}

PluginNames == {Absent, JStr(T_open), JStr(T_bucketPublic)}
Titles == {Absent, JStr(T_to), JStr(T_Untagged)}
MessageValues == {Absent} \cup {JStr(m) : m \in Messages}

ClassifierInputs ==
    {Dict([severity |-> s, plugin |-> p, title |-> ti, message |-> m]) :
        s \in ExplicitSeverities, p \in PluginNames, ti \in Titles,
        m \in MessageValues}

ScanIdle ==
    /\ enabled = {}
    /\ pc = "idle"
    /\ raw = [prowler |-> NoRaw, cloudsploit |-> NoRaw, steampipe |-> NoRaw]
    /\ provider_results = [prowler |-> NoneResult, cloudsploit |-> NoneResult]
    /\ steampipe_results = NoneResult
    /\ summary = ZeroCounts
    /\ OrchestratorIdle

InitClassify ==
    /\ result \in ClassifierInputs
    /\ severity = NotYet
    /\ RiskIdle
    /\ ScanIdle

\* severity = self._determine_severity(result)
Classify ==
    /\ severity = NotYet
    /\ ~determine_severity_raises(result)
    /\ severity' = determine_severity(result)
    /\ UNCHANGED <<result, overall, risk, enabled, pc, raw, provider_results,
                   steampipe_results, summary>>
    /\ UNCHANGED scan_vars

NextClassify == Classify

SpecClassify == InitClassify /\ [][NextClassify]_vars

----------------------------------------------------------------------------
(* The risk level applied to bounded counts *)

InitRisk ==
    /\ overall \in [failed : {0}, critical : 0..MaxCount, high : 0..MaxCount,
                    medium : 0..MaxCount, low : 0..MaxCount]
    /\ risk = NoRisk
    /\ ClassifierIdle
    /\ ScanIdle

\* self._calculate_risk_level(summary)
CalculateRisk ==
    /\ risk = NoRisk
    /\ risk' = calculate_risk_level(overall)
    /\ UNCHANGED <<result, severity, overall, enabled, pc, raw,
                   provider_results, steampipe_results, summary>>
    /\ UNCHANGED scan_vars

NextRisk == CalculateRisk

SpecRisk == InitRisk /\ [][NextRisk]_vars

----------------------------------------------------------------------------
(* Raw outputs of the three tools *)

T_informational == <<"i","n","f","o","r","m","a","t","i","o","n","a","l">>
T_none == <<"n","o","n","e">>

\* the sequences over S of at most n elements
SeqsUpTo(S, n) == UNION {[1..k -> S] : k \in 0..n}

\* what a run leaves behind when the subprocess does not end normally
FailedRuns ==
    {RawFile(exec, "missing", JNull) : exec \in {"timeout", "exit", "raise"}}

\* what a run leaves behind when there is no JSON value to traverse
NoOutputs == {RawFile("ok", "missing", JNull), RawFile("ok", "invalid", JNull)}

ProwlerFinding(status_code, sev) ==
    JDict(Dict([status_code |-> status_code, severity |-> sev]))

ProwlerFindings ==
    {ProwlerFinding(JStr(FAIL), JStr(CRITICAL)),
     ProwlerFinding(JStr(S_fail), JStr(T_High)),
     ProwlerFinding(JStr(FAIL), JStr(T_informational)),
     ProwlerFinding(JStr(FAIL), Absent),
     ProwlerFinding(JStr(PASS), JStr(LOW)),
     ProwlerFinding(Absent, JStr(MEDIUM)),
     ProwlerFinding(JStr(FAIL), JNum(3))}

ProwlerFiles ==
    FailedRuns \cup NoOutputs
        \cup {RawFile("ok", "json", JNull), RawFile("ok", "json", JMap(<<>>))}
        \cup {RawFile("ok", "json", JList(l)) :
                  l \in SeqsUpTo(ProwlerFindings, MaxItems)}

CloudsploitResult(status, sev, plugin, title, message) ==
    JDict(Dict([status |-> status, severity |-> sev, plugin |-> plugin,
                title |-> title, message |-> message]))

CloudsploitResults ==
    {CloudsploitResult(JStr(FAIL), JStr(T_High), Absent, Absent, JStr(S_public)),
     CloudsploitResult(JStr(WARN), Absent, Absent, Absent,
                       JStr(T_weak_exposed_logging_bucket)),
     CloudsploitResult(JStr(UNKNOWN), Absent, Absent, JStr(T_Untagged), Absent),
     CloudsploitResult(JStr(OK), JStr(CRITICAL), Absent, Absent, Absent),
     CloudsploitResult(JStr(PASS), Absent, Absent, Absent, Absent),
     CloudsploitResult(Absent, Absent, JStr(T_bucketPublic), Absent, Absent),
     CloudsploitResult(JStr(FAIL), JStr(T_info), Absent, Absent,
                       JStr(T_missing_tag)),
     CloudsploitResult(JStr(FAIL), JNum(3), Absent, Absent, Absent)}

\* entries of the keyed-object shape: a single result, a result with a
\* numeric status, nested results, nested results with a passed one, nested
\* results that are not objects, and a value that is not an object
CloudsploitEntries ==
    {Entry(T_bucketPublic,
           CloudsploitResult(JStr(FAIL), Absent, Absent, Absent, Absent)),
     Entry(T_open,
           CloudsploitResult(JNum(2), JStr(LOW), Absent, Absent, Absent)),
     Entry(T_open,
           JDict([results |-> JList(
               <<CloudsploitResult(JStr(WARN), JStr(T_High), Absent, Absent,
                                   Absent),
                 CloudsploitResult(Absent, Absent, Absent, Absent, Absent)>>)])),
     Entry(T_bucketPublic,
           JDict([results |-> JList(
               <<CloudsploitResult(JStr(PASS), JStr(CRITICAL), Absent, Absent,
                                   Absent),
                 CloudsploitResult(JStr(FAIL), Absent, Absent, Absent,
                                   Absent)>>)])),
     Entry(T_bucketPublic, JDict([results |-> JList(<<JStr(FAIL)>>)])),
     Entry(T_open, JStr(FAIL))}

CloudsploitFiles ==
    FailedRuns \cup NoOutputs
        \cup {RawFile("ok", "json", JNull)}
        \cup {RawFile("ok", "json", JList(l)) :
                  l \in SeqsUpTo(CloudsploitResults, MaxItems)}
        \cup {RawFile("ok", "json", JMap(m)) :
                  m \in SeqsUpTo(CloudsploitEntries, MaxItems)}

SteampipeResult(status) == JDict([status |-> JStr(status)])

SteampipeControl(status, sev, results) ==
    JDict(Dict([status |-> status, severity |-> sev, results |-> results]))

SteampipeControls ==
    {SteampipeControl(JStr(S_alarm), JStr(LOW),
                      JList(<<SteampipeResult(S_alarm)>>)),
     SteampipeControl(JStr(S_ok), JStr(HIGH), JList(<<SteampipeResult(S_ok)>>)),
     SteampipeControl(JStr(S_alarm), JStr(T_High),
                      JList(<<SteampipeResult(S_alarm), SteampipeResult(S_ok),
                              SteampipeResult(S_alarm)>>)),
     SteampipeControl(JStr(S_alarm), Absent, Absent),
     SteampipeControl(JStr(S_alarm), JStr(T_none), JList(<<>>)),
     SteampipeControl(JStr(S_skip), JStr(CRITICAL), Absent),
     SteampipeControl(JStr(S_info), Absent, Absent),
     SteampipeControl(JStr(S_error), JStr(MEDIUM), Absent),
     SteampipeControl(Absent, Absent, Absent)}

SteampipeGroup(controls) == JDict([controls |-> JList(controls)])

SteampipeFiles ==
    FailedRuns \cup NoOutputs
        \cup {RawFile("ok", "json", JList(<<>>)),
              RawFile("ok", "json", JDict([benchmark |-> JNull]))}
        \cup {RawFile("ok", "json",
                      JDict([groups |-> JList(<<SteampipeGroup(cs)>>)])) :
                  cs \in SeqsUpTo(SteampipeControls, MaxItems)}
        \cup {RawFile("ok", "json",
                      JDict([groups |-> JList(<<SteampipeGroup(<<c1>>),
                                                SteampipeGroup(<<c2>>)>>)])) :
                  c1 \in SteampipeControls, c2 \in SteampipeControls}

----------------------------------------------------------------------------
(* One provider scanned by the orchestrator, or one Steampipe scan *)

Init ==
    /\ ClassifierIdle
    /\ RiskIdle
    /\ \/ /\ pc = "prowler"
          /\ enabled \in {{"prowler"}, {"cloudsploit"}, {"prowler", "cloudsploit"}}
       \/ /\ pc = "steampipe"
          /\ enabled = {"steampipe"}
    /\ raw = [prowler |-> NoRaw, cloudsploit |-> NoRaw, steampipe |-> NoRaw]
    /\ provider_results = [prowler |-> NoneResult, cloudsploit |-> NoneResult]
    /\ steampipe_results = NoneResult
    /\ summary = ZeroCounts
    /\ OrchestratorIdle

\* _scan_provider, "Run Prowler scan": an exception that leaves scan() is
\* recorded as an error result and the summary is not touched
ProwlerStep ==
    /\ pc = "prowler"
    /\ pc' = "cloudsploit"
    /\ IF "prowler" \in enabled
       THEN \E file \in ProwlerFiles :
              LET prowler_results == prowler_scan(file)
              IN  /\ raw' = [raw EXCEPT !.prowler = file]
                  /\ IF file.exec = "raise"
                     THEN /\ provider_results' =
                                [provider_results EXCEPT
                                    !.prowler = ErrorResult("raised")]
                          /\ summary' = summary
                     ELSE /\ provider_results' =
                                [provider_results EXCEPT
                                    !.prowler = prowler_results]
                          /\ summary' = update_summary(summary, prowler_results)
       ELSE UNCHANGED <<raw, provider_results, summary>>
    /\ UNCHANGED <<result, severity, overall, risk, enabled, steampipe_results>>
    /\ UNCHANGED scan_vars

\* _scan_provider, "Run CloudSploit scan"
CloudsploitStep ==
    /\ pc = "cloudsploit"
    /\ pc' = "return"
    /\ IF "cloudsploit" \in enabled
       THEN \E file \in CloudsploitFiles :
              LET cloudsploit_results == cloudsploit_scan(file)
              IN  /\ raw' = [raw EXCEPT !.cloudsploit = file]
                  /\ IF file.exec = "raise"
                     THEN /\ provider_results' =
                                [provider_results EXCEPT
                                    !.cloudsploit = ErrorResult("raised")]
                          /\ summary' = summary
                     ELSE /\ provider_results' =
                                [provider_results EXCEPT
                                    !.cloudsploit = cloudsploit_results]
                          /\ summary' =
                                update_summary(summary, cloudsploit_results)
       ELSE UNCHANGED <<raw, provider_results, summary>>
    /\ UNCHANGED <<result, severity, overall, risk, enabled, steampipe_results>>
    /\ UNCHANGED scan_vars

\* SteampipeScanner.scan called on its own: the orchestrator has no
\* Steampipe step
SteampipeScan ==
    /\ pc = "steampipe"
    /\ pc' = "fold"
    /\ \E file \in SteampipeFiles \ {f \in FailedRuns : f.exec = "raise"} :
          /\ raw' = [raw EXCEPT !.steampipe = file]
          /\ steampipe_results' = steampipe_scan(file)
    /\ UNCHANGED <<result, severity, overall, risk, enabled, provider_results,
                   summary>>
    /\ UNCHANGED scan_vars

\* _update_summary applied to the Steampipe result
SteampipeFold ==
    /\ pc = "fold"
    /\ pc' = "return"
    /\ summary' = update_summary(summary, steampipe_results)
    /\ UNCHANGED <<result, severity, overall, risk, enabled, raw,
                   provider_results, steampipe_results>>
    /\ UNCHANGED scan_vars

Next == ProwlerStep \/ CloudsploitStep \/ SteampipeScan \/ SteampipeFold

Spec == Init /\ [][Next]_vars

----------------------------------------------------------------------------
(* ScannerOrchestrator.scan, get_summary and the exit status of main *)

\* the providers ProwlerScanner.scan and CloudSploitScanner.scan dispatch on;
\* any other name raises ValueError
SupportedProviders == {"aws", "azure", "gcp"}

\* the names a caller passes to scan()
RequestNames == {"aws", "gcp", "oracle", "all"}

\* if 'all' in providers: providers = ['aws', 'azure', 'gcp']
requested_providers(ps) ==
    IF \E i \in 1..Len(ps) : ps[i] = "all" THEN <<"aws", "azure", "gcp">>
    ELSE ps

\* config['providers']: every provider enabled, Oracle included; or Azure
\* disabled and no entry for Oracle
ProviderConfigs ==
    {[aws |-> TRUE, azure |-> TRUE, gcp |-> TRUE, oracle |-> TRUE],
     [aws |-> TRUE, azure |-> FALSE, gcp |-> TRUE]}

\* the raw outputs the scanners leave behind in a scan of several providers
ScanProwlerFiles ==
    {RawFile("timeout", "missing", JNull),
     RawFile("raise", "missing", JNull),
     RawFile("ok", "json", JList(<<ProwlerFinding(JStr(FAIL), JStr(CRITICAL))>>))}

ScanCloudsploitFiles ==
    {RawFile("timeout", "missing", JNull),
     RawFile("ok", "json",
             JList(<<CloudsploitResult(JStr(FAIL), JStr(T_High), Absent, Absent,
                                       Absent)>>)),
     RawFile("ok", "json",
             JList(<<CloudsploitResult(JStr(WARN), Absent, Absent, Absent,
                                       Absent)>>))}

\* d[key] = value on a dict that keeps insertion order
set_item(d, key, value) ==
    IF \E i \in 1..Len(d) : d[i].key = key
    THEN [i \in 1..Len(d) |-> IF d[i].key = key THEN Entry(key, value) ELSE d[i]]
    ELSE Append(d, Entry(key, value))

\* the provider the for loop of scan() is at
provider == providers[index]

OverallZero ==
    [failed |-> 0, critical |-> 0, high |-> 0, medium |-> 0, low |-> 0,
     providers_scanned |-> <<>>]

RECURSIVE get_summary_from_skips_errors(_, _)
\* a provider whose scanners all failed is left out of providers_scanned
get_summary_from_skips_errors(items, acc) ==
    IF items = <<>> THEN acc
    ELSE LET s == Get(Head(items).value, "summary", <<>>)
             v == Head(items).value
         IN  get_summary_from_skips_errors(Tail(items),
                 [failed |-> acc.failed + Get(s, "failed", 0),
                  critical |-> acc.critical + Get(s, "critical", 0),
                  high |-> acc.high + Get(s, "high", 0),
                  medium |-> acc.medium + Get(s, "medium", 0),
                  low |-> acc.low + Get(s, "low", 0),
                  providers_scanned |->
                      IF IsError(v.prowler) /\ IsError(v.cloudsploit)
                      THEN acc.providers_scanned
                      ELSE Append(acc.providers_scanned, Head(items).key)])

RECURSIVE get_summary_from_assigns(_, _)
\* = written for +=: the counters of the last provider replace the sums
get_summary_from_assigns(items, acc) ==
    IF items = <<>> THEN acc
    ELSE LET s == Get(Head(items).value, "summary", <<>>)
         IN  get_summary_from_assigns(Tail(items),
                 [failed |-> Get(s, "failed", 0),
                  critical |-> Get(s, "critical", 0),
                  high |-> Get(s, "high", 0),
                  medium |-> Get(s, "medium", 0),
                  low |-> Get(s, "low", 0),
                  providers_scanned |->
                      Append(acc.providers_scanned, Head(items).key)])

RECURSIVE get_summary_from(_, _)
\* for provider, results in self.results.items()
get_summary_from(items, acc) ==
    IF items = <<>> THEN acc
    ELSE LET s == Get(Head(items).value, "summary", <<>>)
         IN  get_summary_from(Tail(items),
                 [failed |-> acc.failed + Get(s, "failed", 0),
                  critical |-> acc.critical + Get(s, "critical", 0),
                  high |-> acc.high + Get(s, "high", 0),
                  medium |-> acc.medium + Get(s, "medium", 0),
                  low |-> acc.low + Get(s, "low", 0),
                  providers_scanned |->
                      Append(acc.providers_scanned, Head(items).key)])

get_summary(items) == get_summary_from(items, OverallZero)

\* any failed check fails the process
exit_code_any_failed(s) == IF s.failed > 0 THEN 1 ELSE 0

\* only a critical finding fails the process
exit_code_critical_only(s) == IF s.critical > 0 THEN 1 ELSE 0

\* main: sys.exit(1) if summary['critical'] > 0 or summary['high'] > 0
exit_code(s) == IF s.critical > 0 \/ s.high > 0 THEN 1 ELSE 0

\* HTMLReportGenerator._extract_summary: str.upper() of a provider name
upper_name(p) ==
    CASE p = "aws" -> "AWS"
      [] p = "azure" -> "AZURE"
      [] p = "gcp" -> "GCP"
      [] p = "oracle" -> "ORACLE"

\* the keys of the report data that are not providers
NonProviderKeys == {"timestamp", "scan_duration", "report_path"}

\* the summary _extract_summary starts from (timestamp and scan_duration,
\* copied from the data, are left out)
ExtractZero ==
    [total_checks |-> 0, passed |-> 0, failed |-> 0, critical |-> 0,
     high |-> 0, medium |-> 0, low |-> 0, providers_scanned |-> <<>>]

\* data.get(key, default) on a dict that keeps insertion order
get_item(d, key, default) ==
    IF \E i \in 1..Len(d) : d[i].key = key
    THEN d[CHOOSE i \in 1..Len(d) : d[i].key = key].value
    ELSE default

RECURSIVE extract_summary_from_assigns(_, _)
\* = written for +=: the counters of the last provider replace the sums
extract_summary_from_assigns(items, acc) ==
    IF items = <<>> THEN acc
    ELSE IF Head(items).key \in NonProviderKeys
    THEN extract_summary_from_assigns(Tail(items), acc)
    ELSE LET s == Get(Head(items).value, "summary", <<>>)
         IN  extract_summary_from_assigns(Tail(items),
                 [acc EXCEPT
                     !.providers_scanned = Append(@, upper_name(Head(items).key)),
                     !.failed = Get(s, "failed", 0),
                     !.critical = Get(s, "critical", 0),
                     !.high = Get(s, "high", 0),
                     !.medium = Get(s, "medium", 0),
                     !.low = Get(s, "low", 0)])

RECURSIVE extract_summary_from(_, _)
\* for provider, provider_data in results.items()
extract_summary_from(items, acc) ==
    IF items = <<>> THEN acc
    ELSE IF Head(items).key \in NonProviderKeys
    THEN extract_summary_from(Tail(items), acc)
    ELSE LET s == Get(Head(items).value, "summary", <<>>)
         IN  extract_summary_from(Tail(items),
                 [acc EXCEPT
                     !.providers_scanned = Append(@, upper_name(Head(items).key)),
                     !.failed = @ + Get(s, "failed", 0),
                     !.critical = @ + Get(s, "critical", 0),
                     !.high = @ + Get(s, "high", 0),
                     !.medium = @ + Get(s, "medium", 0),
                     !.low = @ + Get(s, "low", 0)])

\* results = data.get('results', data)
extract_summary(data) ==
    extract_summary_from(get_item(data, "results", data), ExtractZero)

\* the report data _extract_summary reads for the results of a run: the
\* format with a 'results' key, and the format with the providers as
\* top-level keys beside the keys that are not providers
ReportData(results) ==
    {<<Entry("timestamp", JStr(<<>>)), Entry("results", results)>>,
     <<Entry("timestamp", JStr(<<>>)), Entry("scan_duration", JNum(0))>>
         \o results \o <<Entry("report_path", JStr(<<>>))>>}

InitScan ==
    /\ ClassifierIdle
    /\ RiskIdle
    /\ enabled \in SUBSET {"prowler", "cloudsploit"}
    /\ pc = "ready"
    /\ raw = [prowler |-> NoRaw, cloudsploit |-> NoRaw, steampipe |-> NoRaw]
    /\ provider_results = [prowler |-> NoneResult, cloudsploit |-> NoneResult]
    /\ steampipe_results = NoneResult
    /\ summary = ZeroCounts
    /\ config \in ProviderConfigs
    /\ providers = <<>>
    /\ index = 0
    /\ self_results = <<>>
    /\ runs = 0
    /\ overall_summary = NoSummary
    /\ exit_status = NoExit
    /\ report = NoReport

\* a caller enters scan(): the providers list is fixed before the loop
ScanCall ==
    /\ pc \in {"ready", "returned", "raised", "summary"}
    /\ runs < MaxRuns
    /\ \E ps \in SeqsUpTo(RequestNames, MaxRequests) :
          /\ Len(self_results) + Len(requested_providers(ps)) <= MaxRequests
          /\ providers' = requested_providers(ps)
    /\ index' = 1
    /\ runs' = runs + 1
    /\ pc' = "loop"
    /\ UNCHANGED <<result, severity, overall, risk, enabled, raw,
                   provider_results, steampipe_results, summary, config,
                   self_results, overall_summary, exit_status, report>>

\* one iteration of the for loop of scan() up to the call of _scan_provider,
\* whose first statements build provider_results; a provider without an entry
\* in config['providers'] raises KeyError out of scan()
ScanLoop ==
    /\ pc = "loop"
    /\ IF index > Len(providers)
       THEN /\ pc' = "report"
            /\ UNCHANGED <<index, provider_results, summary>>
       ELSE IF provider \notin DOMAIN config
       THEN /\ pc' = "raised"
            /\ UNCHANGED <<index, provider_results, summary>>
       ELSE IF ~config[provider]
       THEN /\ pc' = "loop"
            /\ index' = index + 1
            /\ UNCHANGED <<provider_results, summary>>
       ELSE /\ pc' = "scan_prowler"
            /\ provider_results' = [prowler |-> NoneResult,
                                    cloudsploit |-> NoneResult]
            /\ summary' = ZeroCounts
            /\ index' = index
    /\ UNCHANGED <<result, severity, overall, risk, enabled, raw,
                   steampipe_results, config, providers, self_results, runs,
                   overall_summary, exit_status, report>>

\* the try block without its except clause: the exception leaves
\* _scan_provider and scan()
ScanProwler_raise_aborts ==
    /\ pc = "scan_prowler"
    /\ IF "prowler" \in enabled
       THEN \E file \in ScanProwlerFiles :
              LET prowler_results == prowler_scan(file)
              IN  IF provider \notin SupportedProviders \/ file.exec = "raise"
                  THEN /\ pc' = "raised"
                       /\ UNCHANGED <<provider_results, summary>>
                  ELSE /\ pc' = "scan_cloudsploit"
                       /\ provider_results' =
                             [provider_results EXCEPT
                                 !.prowler = prowler_results]
                       /\ summary' = update_summary(summary, prowler_results)
       ELSE /\ pc' = "scan_cloudsploit"
            /\ UNCHANGED <<provider_results, summary>>
    /\ UNCHANGED <<result, severity, overall, risk, enabled, raw,
                   steampipe_results>>
    /\ UNCHANGED scan_vars

\* _scan_provider, "Run Prowler scan", for the provider of the loop:
\* ProwlerScanner.scan raises ValueError for an unsupported provider
ScanProwler ==
    /\ pc = "scan_prowler"
    /\ pc' = "scan_cloudsploit"
    /\ IF "prowler" \in enabled
       THEN \E file \in ScanProwlerFiles :
              LET prowler_results == prowler_scan(file)
              IN  IF provider \notin SupportedProviders \/ file.exec = "raise"
                  THEN /\ provider_results' =
                             [provider_results EXCEPT
                                 !.prowler = ErrorResult("raised")]
                       /\ summary' = summary
                  ELSE /\ provider_results' =
                             [provider_results EXCEPT
                                 !.prowler = prowler_results]
                       /\ summary' = update_summary(summary, prowler_results)
       ELSE UNCHANGED <<provider_results, summary>>
    /\ UNCHANGED <<result, severity, overall, risk, enabled, raw,
                   steampipe_results>>
    /\ UNCHANGED scan_vars

\* _scan_provider, "Run CloudSploit scan" and return, and the assignment
\* self.results[provider] = ... of scan()
ScanCloudsploit ==
    /\ pc = "scan_cloudsploit"
    /\ pc' = "loop"
    /\ index' = index + 1
    /\ IF "cloudsploit" \in enabled
       THEN \E file \in ScanCloudsploitFiles :
              LET cloudsploit_results == cloudsploit_scan(file)
              IN  IF provider \notin SupportedProviders \/ file.exec = "raise"
                  THEN /\ provider_results' =
                             [provider_results EXCEPT
                                 !.cloudsploit = ErrorResult("raised")]
                       /\ summary' = summary
                  ELSE /\ provider_results' =
                             [provider_results EXCEPT
                                 !.cloudsploit = cloudsploit_results]
                       /\ summary' =
                             update_summary(summary, cloudsploit_results)
       ELSE UNCHANGED <<provider_results, summary>>
    /\ self_results' =
           set_item(self_results, provider,
                    [provider |-> provider, prowler |-> provider_results'.prowler,
                     cloudsploit |-> provider_results'.cloudsploit,
                     summary |-> summary'])
    /\ UNCHANGED <<result, severity, overall, risk, enabled, raw,
                   steampipe_results, config, providers, runs, overall_summary,
                   exit_status, report>>

\* the end of scan(): the report generator returns a path, or raises and
\* the exception leaves scan()
Report ==
    /\ pc = "report"
    /\ pc' \in {"returned", "raised"}
    /\ UNCHANGED <<result, severity, overall, risk, enabled, raw,
                   provider_results, steampipe_results, summary>>
    /\ UNCHANGED scan_vars

\* summary = orchestrator.get_summary() after scan() returned
GetSummary ==
    /\ pc = "returned"
    /\ pc' = "summary"
    /\ overall_summary' = get_summary(self_results)
    /\ UNCHANGED <<result, severity, overall, risk, enabled, raw,
                   provider_results, steampipe_results, summary, config,
                   providers, index, self_results, runs, exit_status,
                   report>>

\* main, "Exit with appropriate code"
Exit ==
    /\ pc = "summary"
    /\ pc' = "exit"
    /\ exit_status' = exit_code(overall_summary)
    /\ UNCHANGED <<result, severity, overall, risk, enabled, raw,
                   provider_results, steampipe_results, summary, config,
                   providers, index, self_results, runs, overall_summary,
                   report>>

\* main, except Exception: sys.exit(1)
ExitOnError ==
    /\ pc = "raised"
    /\ pc' = "exit"
    /\ exit_status' = 1
    /\ UNCHANGED <<result, severity, overall, risk, enabled, raw,
                   provider_results, steampipe_results, summary, config,
                   providers, index, self_results, runs, overall_summary,
                   report>>

\* HTMLReportGenerator._generate_html on the report data of the run whose
\* summary main has read: summary = self._extract_summary(data)
Render ==
    /\ pc = "summary"
    /\ report.run # runs
    /\ \E data \in ReportData(self_results) :
          report' = [run |-> runs, data |-> data,
                     summary |-> extract_summary(data)]
    /\ UNCHANGED <<result, severity, overall, risk, enabled, pc, raw,
                   provider_results, steampipe_results, summary, config,
                   providers, index, self_results, runs, overall_summary,
                   exit_status>>

NextScan ==
    \/ ScanCall
    \/ ScanLoop
    \/ ScanProwler
    \/ ScanCloudsploit
    \/ Report
    \/ GetSummary
    \/ Exit
    \/ ExitOnError

SpecScan == InitScan /\ [][NextScan]_vars

\* main: the provider option is one of aws, azure, gcp and all, and
\* providers is [provider], or the three providers for all; main constructs
\* the orchestrator and calls scan() once
MainProviders == {"aws", "azure", "gcp", "all"}

MainScan ==
    /\ pc = "ready"
    /\ \E p \in MainProviders : providers' = requested_providers(<<p>>)
    /\ index' = 1
    /\ runs' = runs + 1
    /\ pc' = "loop"
    /\ UNCHANGED <<result, severity, overall, risk, enabled, raw,
                   provider_results, steampipe_results, summary, config,
                   self_results, overall_summary, exit_status, report>>

NextMain ==
    \/ MainScan
    \/ ScanLoop
    \/ ScanProwler
    \/ ScanCloudsploit
    \/ Report
    \/ GetSummary
    \/ Exit
    \/ ExitOnError

\* scan() is sequential code and every tool invocation has a timeout: a
\* scan() call that has started keeps taking steps until it returns or raises
ScanStep == ScanLoop \/ ScanProwler \/ ScanCloudsploit \/ Report

SpecMain == InitScan /\ [][NextMain]_vars /\ WF_vars(ScanStep)

\* the command line program followed by the report renderer
NextReport == NextMain \/ Render

SpecReport == InitScan /\ [][NextReport]_vars

----------------------------------------------------------------------------
(* The exit status and the risk level applied to the same bounded counts *)

\* main, "Exit with appropriate code", for the counts of an overall summary
ExitForCounts ==
    /\ exit_status = NoExit
    /\ exit_status' = exit_code(overall)
    /\ UNCHANGED <<result, severity, overall, risk, enabled, pc, raw,
                   provider_results, steampipe_results, summary, config,
                   providers, index, self_results, runs, overall_summary,
                   report>>

NextVerdict == CalculateRisk \/ ExitForCounts

SpecVerdict == InitRisk /\ [][NextVerdict]_vars

----------------------------------------------------------------------------
(* Claims about the adapters and the provider summary *)

ScannerNames == {"prowler", "cloudsploit", "steampipe"}

\* what scan() of a scanner returned, None before it ran
AdapterResult(scanner) ==
    IF scanner = "steampipe" THEN steampipe_results
    ELSE provider_results[scanner]

\* the result of a parse that did not raise: it has the counter 'failed'
Parsed(r) == "failed" \in DOMAIN r

SeveritySum(r) ==
    Get(r, "critical", 0) + Get(r, "high", 0) + Get(r, "medium", 0)
        + Get(r, "low", 0)

Findings(r) == Get(r, "findings", <<>>)

RECURSIVE Flatten(_)
Flatten(seqs) ==
    IF seqs = <<>> THEN <<>> ELSE Head(seqs) \o Flatten(Tail(seqs))

Objects(items) == SelectSeq(items, LAMBDA x : x.t = "dict")

\* the result objects under one value of the keyed-object shape
EntryResults(v) ==
    IF v.t # "dict" THEN <<>>
    ELSE IF "status" \in DOMAIN v.d THEN <<v>>
    ELSE IF "results" \in DOMAIN v.d /\ v.d["results"].t = "list"
    THEN Objects(v.d["results"].l)
    ELSE <<>>

\* the controls under one group of the grouped hierarchy
GroupControls(g) ==
    IF g.t = "dict" /\ "controls" \in DOMAIN g.d /\ g.d["controls"].t = "list"
    THEN Objects(g.d["controls"].l)
    ELSE <<>>

\* the raw results of a scanner's output: array elements, results of the
\* keyed-object shape, controls of the grouped hierarchy
RawResults(scanner) ==
    LET data == raw[scanner].data
    IN  IF raw[scanner].exec # "ok" \/ raw[scanner].kind # "json" THEN <<>>
        ELSE IF scanner = "steampipe"
        THEN IF data.t = "dict" /\ "groups" \in DOMAIN data.d
                  /\ data.d["groups"].t = "list"
             THEN Flatten([i \in 1..Len(data.d["groups"].l) |->
                              GroupControls(data.d["groups"].l[i])])
             ELSE <<>>
        ELSE IF data.t = "list" THEN Objects(data.l)
        ELSE IF data.t = "map" /\ scanner = "cloudsploit"
        THEN Flatten([i \in 1..Len(data.m) |-> EntryResults(data.m[i].value)])
        ELSE <<>>

\* the status of a raw result in lower case: status_code for Prowler, status
\* (UNKNOWN when absent) for CloudSploit, status (error when absent) for a
\* Steampipe control; the empty string for a status that is not a string
RawStatus(scanner, res) ==
    LET st == IF scanner = "prowler" THEN Get(res.d, "status_code", JStr(<<>>))
              ELSE IF scanner = "cloudsploit"
              THEN Get(res.d, "status", JStr(UNKNOWN))
              ELSE Get(res.d, "status", JStr(S_error))
    IN  IF st.t = "str" THEN Lower(st.s) ELSE <<>>

S_pass == <<"p","a","s","s">>
S_unknown == <<"u","n","k","n","o","w","n">>

IsPassOrSkip(scanner, res) == RawStatus(scanner, res) \in {S_pass, S_ok, S_skip}

NoUnknownStatus ==
    \A scanner \in ScannerNames :
        \A i \in 1..Len(RawResults(scanner)) :
            RawStatus(scanner, RawResults(scanner)[i]) # S_unknown

\* the raw results of a scanner that are neither pass nor skip
Countable(scanner) ==
    SelectSeq(RawResults(scanner), LAMBDA res : ~IsPassOrSkip(scanner, res))

\* the findings of the results that were folded into the summary
FoldedFindings ==
    LET folded(r) == IF Parsed(r) /\ ~IsError(r) THEN Len(Findings(r)) ELSE 0
    IN  folded(provider_results["prowler"])
            + folded(provider_results["cloudsploit"])
            + (IF pc = "return" THEN folded(steampipe_results) ELSE 0)

\* C2: when no raw result has status UNKNOWN, every adapter result and the
\* provider summary have critical + high + medium + low = failed.
C2_Original ==
    NoUnknownStatus =>
        /\ \A scanner \in ScannerNames :
               Parsed(AdapterResult(scanner)) =>
                   SeveritySum(AdapterResult(scanner))
                       = AdapterResult(scanner).failed
        /\ SeveritySum(summary) = summary.failed

\* C3: in every state each adapter result and the provider summary have
\* critical + high + medium + low <= failed.
C3_SumAtMostFailed ==
    /\ \A scanner \in ScannerNames :
           Parsed(AdapterResult(scanner)) =>
               SeveritySum(AdapterResult(scanner))
                   <= AdapterResult(scanner).failed
    /\ SeveritySum(summary) <= summary.failed

\* an output with an UNKNOWN status and an output whose severities sum to
\* less than failed have both been folded into the summary
C3_Witness ==
    /\ pc = "return"
    /\ \E i \in 1..Len(RawResults("cloudsploit")) :
           RawStatus("cloudsploit", RawResults("cloudsploit")[i]) = S_unknown
    /\ Parsed(provider_results["cloudsploit"])
    /\ provider_results["cloudsploit"].failed > 0
    /\ Parsed(provider_results["prowler"])
    /\ SeveritySum(provider_results["prowler"]) > 0
    /\ SeveritySum(provider_results["prowler"])
           < provider_results["prowler"].failed
    /\ summary.failed = provider_results["prowler"].failed
                            + provider_results["cloudsploit"].failed
    /\ SeveritySum(summary) < summary.failed

\* C4: a raw result whose status is pass or skip never increments failed or
\* a severity counter and never appears in findings: failed and the severity
\* counters count at most the other raw results, and no finding has a pass
\* or skip status.
C4_Original ==
    \A scanner \in ScannerNames :
        LET r == AdapterResult(scanner)
        IN  Parsed(r) =>
                /\ r.failed <= Len(Countable(scanner))
                /\ SeveritySum(r) <= Len(Countable(scanner))
                /\ \A i \in 1..Len(Findings(r)) :
                       Lower(Findings(r)[i].status) \notin {S_pass, S_ok, S_skip}

\* C5: failed of an adapter result that is not an error is the number of its
\* findings, and failed of the provider summary is the number of findings of
\* the results folded into it.
C5_Original ==
    /\ \A scanner \in ScannerNames :
           Parsed(AdapterResult(scanner)) =>
               AdapterResult(scanner).failed
                   = Len(Findings(AdapterResult(scanner)))
    /\ summary.failed = FoldedFindings

\* C6: every retained finding has a severity that is one of critical, high,
\* medium, low.
C6_Original ==
    \A scanner \in ScannerNames :
        \A i \in 1..Len(Findings(AdapterResult(scanner))) :
            Findings(AdapterResult(scanner))[i].severity \in Severities

----------------------------------------------------------------------------
(* Claims about the risk level *)

\* C1: the risk level is the first matching row of the table: critical > 0
\* gives Critical; else high >= 5 gives High; else high > 0 or medium >= 10
\* gives Medium; else medium > 0 or low > 0 gives Low; else No Issues.
C1_RiskTable ==
    risk # NoRisk =>
        /\ overall.critical > 0 => risk = "Critical Risk"
        /\ overall.critical = 0 /\ overall.high >= 5 => risk = "High Risk"
        /\ overall.critical = 0 /\ overall.high < 5
              /\ (overall.high > 0 \/ overall.medium >= 10)
              => risk = "Medium Risk"
        /\ overall.critical = 0 /\ overall.high = 0 /\ overall.medium < 10
              /\ (overall.medium > 0 \/ overall.low > 0)
              => risk = "Low Risk"
        /\ overall.critical = 0 /\ overall.high = 0 /\ overall.medium = 0
              /\ overall.low = 0
              => risk = "No Issues"

\* high = 5 alone has been given High Risk
C1_Witness ==
    /\ overall.critical = 0 /\ overall.high = 5
    /\ overall.medium = 0 /\ overall.low = 0
    /\ risk = "High Risk"

----------------------------------------------------------------------------
(* Claims about the classifier *)

\* the keyword tiers as the specification lists them
SpecCriticalTier ==
    {S_exposed, S_public, S_open_to_world, S_encryption_disabled,
     S_mfa_disabled, S_no_encryption}
SpecHighTier ==
    {S_vulnerable, S_insecure, S_weak, S_misconfigured, S_missing_encryption,
     S_unencrypted, T_missing}
SpecLowTier == {S_logging, S_monitoring, S_tag, S_label}

Classified == severity # NotYet
TextHas(tier) == \E keyword \in tier : Contains(keyword, SeverityText(result))

\* C7: an explicit severity that is, case-insensitively, one of critical,
\* high, medium, low is the level returned, whatever the text fields hold.
C7_ExplicitWins ==
    Classified /\ HasValidSeverity(result) =>
        \E level \in Severities :
            /\ Lower(result["severity"].s) = level
            /\ severity = level

\* explicit High with the critical keyword 'public' in the text gave high
C7_Witness ==
    /\ Classified
    /\ "severity" \in DOMAIN result
    /\ result["severity"] = JStr(T_High)
    /\ TextHas({S_public})
    /\ severity = HIGH

\* C8: without a valid explicit severity, a text with a critical-tier keyword
\* resolves to critical, whichever high-tier or low-tier keywords it holds.
C8_CriticalTierFirst ==
    Classified /\ ~HasValidSeverity(result) /\ TextHas(SpecCriticalTier) =>
        severity = CRITICAL

\* 'weak exposed logging bucket' gave critical
C8_Witness ==
    /\ Classified
    /\ ~HasValidSeverity(result)
    /\ "message" \in DOMAIN result
    /\ result["message"] = JStr(T_weak_exposed_logging_bucket)
    /\ severity = CRITICAL

\* C9 as stated: without a valid explicit severity and without a critical-tier
\* keyword, a text with one of vulnerable, insecure, weak, misconfigured,
\* missing encryption, unencrypted or missing resolves to high.
C9_Original ==
    Classified /\ ~HasValidSeverity(result) /\ ~TextHas(SpecCriticalTier)
        /\ TextHas(SpecHighTier)
        => severity = HIGH

\* C9 amended: the same for the six keywords vulnerable, insecure, weak,
\* misconfigured, missing encryption, unencrypted, also when the text holds a
\* low-tier keyword; 'missing' alone is not a high-tier keyword.
C9_HighTierSecond ==
    Classified /\ ~HasValidSeverity(result) /\ ~TextHas(SpecCriticalTier)
        /\ TextHas(SpecHighTier \ {T_missing})
        => severity = HIGH

\* a text with the high keyword 'weak' and the low keyword 'tag' gave high
C9_Witness ==
    /\ Classified
    /\ ~HasValidSeverity(result)
    /\ ~TextHas(SpecCriticalTier)
    /\ TextHas({S_weak})
    /\ TextHas({S_tag})
    /\ severity = HIGH

\* C10: without a valid explicit severity and without a critical-tier or
\* high-tier keyword, the level is low when the text holds logging,
\* monitoring, tag or label, and medium otherwise.
C10_LowTierThenMedium ==
    Classified /\ ~HasValidSeverity(result) /\ ~TextHas(SpecCriticalTier)
        /\ ~TextHas(SpecHighTier)
        => severity = IF TextHas(SpecLowTier) THEN LOW ELSE MEDIUM

\* a result without any text field gave medium
C10_Witness ==
    /\ Classified
    /\ DOMAIN result \cap {"plugin", "title", "message"} = {}
    /\ ~HasValidSeverity(result)
    /\ severity = MEDIUM

----------------------------------------------------------------------------
(* Claims about a scan run of the orchestrator *)

FiveCounters == {"failed", "critical", "high", "medium", "low"}

\* the entries of self.results under a provider name
EntriesOf(p) == {j \in 1..Len(self_results) : self_results[j].key = p}

ScanRunning == pc \in {"loop", "scan_prowler", "scan_cloudsploit", "report"}
ScanEnded == pc \in {"returned", "raised"}

\* every requested provider has an entry in config['providers']
AllConfigured == \A i \in 1..Len(providers) : providers[i] \in DOMAIN config

\* the provider has an entry with the five counters and an outcome, a result
\* or an error, for every scanner that is enabled
HasEntry(p) ==
    \E j \in EntriesOf(p) :
        /\ DOMAIN self_results[j].value.summary = FiveCounters
        /\ \A scanner \in enabled : self_results[j].value[scanner] # NoneResult

TreeComplete ==
    \A i \in 1..Len(providers) : config[providers[i]] => HasEntry(providers[i])

\* C12: whichever scanner invocations time out, return an error or raise, a
\* scan run over configured providers goes on through the remaining scanners
\* and providers and ends, and when it has ended the results hold, for every
\* requested provider that is enabled, an entry with a summary of the five
\* counters and an outcome for every enabled scanner.
C12_ScanCompletes ==
    /\ (ScanRunning /\ AllConfigured) ~> ScanEnded
    /\ [](ScanEnded /\ AllConfigured => TreeComplete)

\* a run over all providers with Azure disabled has returned: for AWS
\* Prowler raised and CloudSploit timed out, for GCP Prowler timed out and
\* CloudSploit reported a finding
C12_Witness ==
    /\ pc = "returned"
    /\ providers = <<"aws", "azure", "gcp">>
    /\ ~config["azure"]
    /\ Len(self_results) = 2
    /\ self_results[1].value.prowler = ErrorResult("raised")
    /\ self_results[1].value.cloudsploit = ErrorResult("Scan failed")
    /\ self_results[2].key = "gcp"
    /\ self_results[2].value.prowler = ErrorResult("Scan failed")
    /\ Parsed(self_results[2].value.cloudsploit)
    /\ self_results[2].value.summary.failed = 1

----------------------------------------------------------------------------
(* Claims about partial failure within one provider *)

\* the tool's run ended in a timeout, an exit code the scanner treats as a
\* failure, or an exception that left scan()
ExecutionFailed(scanner) ==
    IF scanner = "cloudsploit" THEN raw[scanner].exec \in {"timeout", "raise"}
    ELSE raw[scanner].exec \in {"timeout", "exit", "raise"}

OtherScanner(scanner) == IF scanner = "prowler" THEN "cloudsploit" ELSE "prowler"

\* C11: with both scanners enabled, when one scanner's run failed and the
\* other returned a finding list, the failing scanner's entry is an error and
\* the provider summary's five counters are exactly the other scanner's,
\* whichever of the two failed.
C11_PartialFailure ==
    (pc = "return" /\ enabled = {"prowler", "cloudsploit"}) =>
        \A scanner \in {"prowler", "cloudsploit"} :
            (/\ ExecutionFailed(scanner)
             /\ Parsed(provider_results[OtherScanner(scanner)])) =>
                /\ IsError(provider_results[scanner])
                /\ \A c \in FiveCounters :
                       summary[c] = provider_results[OtherScanner(scanner)][c]

\* Prowler reported two findings and CloudSploit, which runs after it, timed
\* out
C11_Witness ==
    /\ pc = "return"
    /\ enabled = {"prowler", "cloudsploit"}
    /\ raw.cloudsploit.exec = "timeout"
    /\ IsError(provider_results.cloudsploit)
    /\ Parsed(provider_results.prowler)
    /\ Len(provider_results.prowler.findings) = 2
    /\ summary.failed = 2
    /\ summary.critical = 1

----------------------------------------------------------------------------
(* Claims about the provider names of a scan run *)

\* C13: with a scanner enabled, a scan() call that was asked for a provider
\* the scanners have no adapter for does not return normally, and no entry of
\* the results holds a scanner error for such a provider once scan() has
\* returned.
C13_Original ==
    (pc = "returned" /\ enabled # {}) =>
        /\ \A i \in 1..Len(providers) : providers[i] \in SupportedProviders
        /\ \A j \in 1..Len(self_results) :
               self_results[j].key \notin SupportedProviders =>
                   /\ ~IsError(self_results[j].value.prowler)
                   /\ ~IsError(self_results[j].value.cloudsploit)

----------------------------------------------------------------------------
(* Claims about missing and unreadable raw output *)

OrchestratedScanners == {"prowler", "cloudsploit"}

\* the tool's run got as far as the parser: Prowler's exit code was 0 or 3,
\* CloudSploit's run did not time out or raise
ReachedParser(scanner) ==
    IF scanner = "cloudsploit" THEN raw[scanner].exec \in {"ok", "exit"}
    ELSE raw[scanner].exec = "ok"

\* the five counters a scanner's result adds to the provider summary
Contribution(r) ==
    IF IsError(r) \/ ~Parsed(r) THEN ZeroCounts
    ELSE [c \in FiveCounters |-> r[c]]

\* C14: when a scanner ran and left no output file, its result has failed =
\* 0, the four severities 0, an empty findings list and no error, and the
\* provider summary holds only what the other scanner contributed.
C14_MissingOutput ==
    \A scanner \in OrchestratedScanners :
        (ReachedParser(scanner) /\ raw[scanner].kind = "missing") =>
            LET r == provider_results[scanner]
            IN  /\ ~IsError(r)
                /\ Parsed(r)
                /\ r.failed = 0
                /\ \A sev \in {"critical", "high", "medium", "low"} : r[sev] = 0
                /\ "findings" \in DOMAIN r
                /\ r.findings = <<>>
                /\ pc = "return" =>
                       summary = Contribution(
                                     provider_results[OtherScanner(scanner)])

\* CloudSploit exited with a non-zero code and left no output file after
\* Prowler had reported a finding
C14_Witness ==
    /\ pc = "return"
    /\ raw.cloudsploit.exec = "exit"
    /\ raw.cloudsploit.kind = "missing"
    /\ provider_results.cloudsploit = EmptySummary
    /\ Parsed(provider_results.prowler)
    /\ summary.failed = 1
    /\ summary.critical = 1

\* the output file exists and holds no JSON (it is empty or malformed)
NotJson(scanner) == ReachedParser(scanner) /\ raw[scanner].kind = "invalid"

\* the output file holds a JSON value that is neither an array nor an object
NotACollection(scanner) ==
    /\ ReachedParser(scanner)
    /\ raw[scanner].kind = "json"
    /\ raw[scanner].data.t \in {"null", "num"}

\* the result of a tool that ran and found nothing
FoundNothing(r) ==
    /\ ~IsError(r)
    /\ Parsed(r)
    /\ \A c \in FiveCounters : r[c] = 0
    /\ Findings(r) = <<>>

----------------------------------------------------------------------------
(* Claims about the order of the folds *)

\* C16: the provider summary, which _scan_provider folds from the Prowler
\* result and then the CloudSploit result, equals the fold of the same two
\* results in the other order, CloudSploit first.
C16_FoldOrderIrrelevant ==
    (pc = "return" /\ enabled \subseteq OrchestratedScanners) =>
        summary = update_summary(
                      update_summary(ZeroCounts, provider_results.cloudsploit),
                      provider_results.prowler)

\* both scanners returned findings, with different counters
C16_Witness ==
    /\ pc = "return"
    /\ Parsed(provider_results.prowler)
    /\ Parsed(provider_results.cloudsploit)
    /\ provider_results.prowler.failed = 2
    /\ provider_results.prowler.critical = 1
    /\ provider_results.cloudsploit.failed = 1
    /\ provider_results.cloudsploit.high = 1
    /\ summary.failed = 3

----------------------------------------------------------------------------
(* Claims about the overall summary *)

RECURSIVE SumOver(_, _)
\* the sum of a counter over the provider summaries in the results
SumOver(c, S) ==
    IF S = {} THEN 0
    ELSE LET j == CHOOSE x \in S : TRUE
         IN  self_results[j].value.summary[c] + SumOver(c, S \ {j})

ProvidersInResults == {self_results[j].key : j \in 1..Len(self_results)}

\* C17: the overall summary get_summary() returned has, for each of the five
\* counters, the sum of that counter over the provider summaries in the
\* results, and its providers_scanned holds exactly the providers that have
\* an entry in the results, each once.
C17_OverallIsSum ==
    pc = "summary" =>
        /\ \A c \in FiveCounters :
               overall_summary[c] = SumOver(c, 1..Len(self_results))
        /\ {overall_summary.providers_scanned[i] :
               i \in 1..Len(overall_summary.providers_scanned)}
               = ProvidersInResults
        /\ Len(overall_summary.providers_scanned)
               = Cardinality(ProvidersInResults)

\* the summary of two providers with different findings, the second of them
\* scanned in a second run
C17_Witness ==
    /\ pc = "summary"
    /\ runs = 2
    /\ Len(self_results) = 2
    /\ self_results[1].value.summary.failed = 2
    /\ self_results[2].value.summary.failed = 1
    /\ self_results[1].value.summary.critical = 1
    /\ self_results[2].value.summary.medium = 1
    /\ providers = <<self_results[2].key>>
    /\ overall_summary.providers_scanned
           = <<self_results[1].key, self_results[2].key>>
    /\ overall_summary.failed = 3

\* s[n], ..., s[1]
Reverse(s) == [i \in 1..Len(s) |-> s[Len(s) + 1 - i]]

\* the elements of a list
Range(s) == {s[i] : i \in 1..Len(s)}

\* C18: the overall summary built from the provider summaries in the order
\* they were scanned has the same five counters, the same set of providers
\* scanned and the same risk level as the one built from the same provider
\* summaries in the opposite order.
C18_MergeOrderIrrelevant ==
    pc = "summary" =>
        LET other == get_summary(Reverse(self_results))
        IN  /\ \A c \in FiveCounters : overall_summary[c] = other[c]
            /\ Range(overall_summary.providers_scanned)
                   = Range(other.providers_scanned)
            /\ calculate_risk_level(overall_summary)
                   = calculate_risk_level(other)

\* two providers scanned in one run: the first has a critical finding, the
\* second only a medium one
C18_Witness ==
    /\ pc = "summary"
    /\ runs = 1
    /\ Len(self_results) = 2
    /\ self_results[1].value.summary.critical = 1
    /\ self_results[2].value.summary.critical = 0
    /\ self_results[2].value.summary.medium = 1
    /\ calculate_risk_level(self_results[2].value.summary) = "Low Risk"
    /\ calculate_risk_level(overall_summary) = "Critical Risk"

----------------------------------------------------------------------------
(* Claims about successive runs and the exit status *)

\* C19: when a scan run over some providers has returned, the results and
\* the overall summary hold only providers that were scanned in that run.
C19_Original ==
    /\ (pc \in {"returned", "summary"} /\ providers # <<>>) =>
           ProvidersInResults \subseteq Range(providers)
    /\ (pc = "summary" /\ providers # <<>>) =>
           /\ Range(overall_summary.providers_scanned) \subseteq Range(providers)
           /\ \A c \in FiveCounters :
                  overall_summary[c]
                      = SumOver(c, {j \in 1..Len(self_results) :
                                       self_results[j].key \in Range(providers)})

\* scan() returned and main read the overall summary
ScanReturned == "failed" \in DOMAIN overall_summary

\* some scanner of some provider left an error entry in the results
HasScannerError ==
    \E j \in 1..Len(self_results) :
        \/ IsError(self_results[j].value.prowler)
        \/ IsError(self_results[j].value.cloudsploit)

\* C20: when the scan run completed, the exit status is 1 if the critical or
\* the high counters of the provider summaries sum to more than 0 and 0
\* otherwise, whether or not the results hold scanner errors.
C20_ExitStatus ==
    (pc = "exit" /\ ScanReturned) =>
        exit_status =
            IF \/ SumOver("critical", 1..Len(self_results)) > 0
               \/ SumOver("high", 1..Len(self_results)) > 0
            THEN 1 ELSE 0

\* main exited with status 0 after a run in which a scanner failed and
\* another reported a medium finding
C20_Witness ==
    /\ pc = "exit"
    /\ ScanReturned
    /\ exit_status = 0
    /\ HasScannerError
    /\ overall_summary.failed > 0
    /\ overall_summary.medium > 0

----------------------------------------------------------------------------
(* Claims about the grouped hierarchy *)

\* the summary the Steampipe parser returns after a traversal that did not
\* raise
SteampipeParsed(r) == Parsed(r) /\ "findings" \in DOMAIN r

\* C21: the provider summary that _update_summary folded a parsed
\* grouped-hierarchy result into holds the result's five counters; for one
\* alarm control of severity low and one ok control it has failed = 1 and
\* low = 1.
C21_Original ==
    (pc = "return" /\ SteampipeParsed(steampipe_results)) =>
        \A c \in FiveCounters : summary[c] = steampipe_results[c]

----------------------------------------------------------------------------
(* Claims about the report renderer *)

\* the renderer has read the report data of the run whose summary main holds
Rendered == pc = "summary" /\ report.run = runs

\* C22: the summary the report renderer extracts from the report data of a
\* run has the five counters of the overall summary get_summary() returned
\* for the same results, and lists the same providers in the same order, each
\* name in upper case.
C22_RendererAgrees ==
    Rendered =>
        /\ \A c \in FiveCounters : report.summary[c] = overall_summary[c]
        /\ Len(report.summary.providers_scanned)
               = Len(overall_summary.providers_scanned)
        /\ \A i \in 1..Len(overall_summary.providers_scanned) :
               report.summary.providers_scanned[i]
                   = upper_name(overall_summary.providers_scanned[i])

\* the renderer read the data with a 'results' key of a run over all
\* providers; the results hold two providers with different findings
C22_Witness ==
    /\ Rendered
    /\ providers = <<"aws", "azure", "gcp">>
    /\ report.data[2].key = "results"
    /\ Len(self_results) = 2
    /\ self_results[1].value.summary.critical = 1
    /\ self_results[2].value.summary.high = 1
    /\ report.summary.failed = 3
    /\ report.summary.providers_scanned
           = <<upper_name(self_results[1].key), upper_name(self_results[2].key)>>

----------------------------------------------------------------------------
(* Claims about the statuses of the array and keyed-object shapes *)

\* the status codes of the keyed-object shape: 0 = PASS, 1 = WARN, 2 = FAIL,
\* 3 = UNKNOWN
StatusCodes == 0..3

StatusName(code) ==
    CASE code = 0 -> PASS
      [] code = 1 -> WARN
      [] code = 2 -> FAIL
      [] code = 3 -> UNKNOWN

\* a result object with its numeric status code replaced by the status name
WithStatusName(res) ==
    IF res.t = "dict" /\ "status" \in DOMAIN res.d /\ res.d["status"].t = "num"
           /\ res.d["status"].n \in StatusCodes
    THEN JDict([res.d EXCEPT !["status"] = JStr(StatusName(@.n))])
    ELSE res

\* the entries of a keyed-object output with every numeric status code, of a
\* single result or of a nested result, replaced by the status name
WithStatusNames(entries) ==
    [i \in 1..Len(entries) |->
        LET v == entries[i].value
        IN  Entry(entries[i].key,
                IF v.t = "dict" /\ "status" \notin DOMAIN v.d
                       /\ "results" \in DOMAIN v.d /\ v.d["results"].t = "list"
                THEN JDict([v.d EXCEPT !["results"] =
                         JList([j \in 1..Len(@.l) |-> WithStatusName(@.l[j])])])
                ELSE WithStatusName(v))]

\* the output of the CloudSploit run is in the keyed-object shape
KeyedOutput ==
    /\ ReachedParser("cloudsploit")
    /\ raw.cloudsploit.kind = "json"
    /\ raw.cloudsploit.data.t = "map"

\* C23: a keyed-object output with numeric status codes gives the counters
\* and the number of findings that the same output gives with each code
\* replaced by its name (0 PASS, 1 WARN, 2 FAIL, 3 UNKNOWN).
C23_Original ==
    KeyedOutput =>
        LET r == provider_results.cloudsploit
            named == parse_cloudsploit_output(
                         RawFile("ok", "json",
                                 JMap(WithStatusNames(raw.cloudsploit.data.m))))
        IN  Parsed(named) =>
                /\ Parsed(r)
                /\ \A c \in FiveCounters : r[c] = named[c]
                /\ Len(r.findings) = Len(named.findings)

\* the status the array and nested traversals read from a result object, and
\* the single-result traversal from a value that has the key: result['status'],
\* UNKNOWN when the object has none
ReadStatus(res) == Get(res.d, "status", JStr(UNKNOWN))

RetainedStatuses == {JStr(FAIL), JStr(WARN), JStr(UNKNOWN)}

\* the result objects of the CloudSploit output, in traversal order, whose
\* status is FAIL, WARN or UNKNOWN
RetainedResults ==
    SelectSeq(RawResults("cloudsploit"),
              LAMBDA res : ReadStatus(res) \in RetainedStatuses)

\* the CloudSploit output was traversed without an exception
CloudsploitParsed ==
    /\ ReachedParser("cloudsploit")
    /\ raw.cloudsploit.kind = "json"
    /\ Parsed(provider_results.cloudsploit)

\* the findings of a result that have the severity
WithSeverity(r, sev) == SelectSeq(Findings(r), LAMBDA f : f.severity = sev)

AlarmControls ==
    SelectSeq(RawResults("steampipe"),
              LAMBDA c : Get(c.d, "status", JStr(S_error)) = JStr(S_alarm))

\* the severity an alarm control declares, in lower case, medium when it
\* declares none
DeclaredSeverity(c) == Lower(Get(c.d, "severity", JStr(MEDIUM)).s)

\* the controls of the grouped hierarchy that have the status
ControlsWithStatus(status) ==
    SelectSeq(RawResults("steampipe"),
              LAMBDA c : Get(c.d, "status", JStr(S_error)) = JStr(status))

\* C25: after a traversal of a grouped hierarchy, failed is the number of
\* controls whose status is alarm, and each severity counter is the number of
\* alarm controls that declare that severity, or for medium declare none;
\* controls with status ok, skip, info or error add to neither (an alarm
\* control whose declared severity is not one of the four adds to failed
\* only).
C25_OnlyAlarmCounts ==
    SteampipeParsed(steampipe_results) =>
        /\ steampipe_results.failed = Len(AlarmControls)
        /\ steampipe_results.critical
               = Len(SelectSeq(AlarmControls,
                               LAMBDA c : DeclaredSeverity(c) = CRITICAL))
        /\ steampipe_results.high
               = Len(SelectSeq(AlarmControls,
                               LAMBDA c : DeclaredSeverity(c) = HIGH))
        /\ steampipe_results.medium
               = Len(SelectSeq(AlarmControls,
                               LAMBDA c : DeclaredSeverity(c) = MEDIUM))
        /\ steampipe_results.low
               = Len(SelectSeq(AlarmControls,
                               LAMBDA c : DeclaredSeverity(c) = LOW))

\* an alarm control that declares no severity and a skipped control that
\* declares critical gave failed = 1 and medium = 1
C25_Witness ==
    /\ SteampipeParsed(steampipe_results)
    /\ Len(RawResults("steampipe")) = 2
    /\ Len(AlarmControls) = 1
    /\ "severity" \notin DOMAIN AlarmControls[1].d
    /\ Len(ControlsWithStatus(S_skip)) = 1
    /\ DeclaredSeverity(ControlsWithStatus(S_skip)[1]) = CRITICAL
    /\ steampipe_results.failed = 1
    /\ steampipe_results.medium = 1
    /\ steampipe_results.critical = 0

----------------------------------------------------------------------------
(* Claims about the text the classifier scans *)

\* the name a finding is stored under, in lower case: the plugin field of an
\* array element, the mapping key of a keyed result
FindingName(f) == Lower(f.plugin.s)

\* C26: in every shape, the finding of a retained result that has no valid
\* explicit severity and whose check name, the mapping key in the
\* keyed-object shape, contains a critical keyword has the severity
\* critical.
C26_Original ==
    CloudsploitParsed =>
        \A i \in 1..Len(provider_results.cloudsploit.findings) :
            LET f == provider_results.cloudsploit.findings[i]
            IN  (/\ ~HasValidSeverity(RetainedResults[i].d)
                 /\ \E keyword \in SpecCriticalTier :
                        Contains(keyword, FindingName(f)))
                    => f.severity = CRITICAL

----------------------------------------------------------------------------
(* Claims about a traversal that raises *)

\* a retained result object whose severity field is not a string
RaisingResult(res) ==
    IF res.t # "dict" THEN FALSE
    ELSE /\ ReadStatus(res) \in RetainedStatuses
         /\ "severity" \in DOMAIN res.d
         /\ res.d["severity"].t # "str"

\* a value of the keyed-object shape that makes the traversal raise: a single
\* result that does, or nested results with an entry that is not an object
\* or that does
RaisingValue(v) ==
    IF v.t # "dict" THEN FALSE
    ELSE IF "status" \in DOMAIN v.d THEN RaisingResult(v)
    ELSE IF "results" \in DOMAIN v.d /\ v.d["results"].t = "list"
    THEN \E j \in 1..Len(v.d["results"].l) :
             \/ v.d["results"].l[j].t # "dict"
             \/ RaisingResult(v.d["results"].l[j])
    ELSE FALSE

\* a finding of the Prowler output that is not an object, or whose
\* status_code or severity is not a string
RaisingFinding(f) ==
    IF f.t # "dict" THEN TRUE
    ELSE \/ Get(f.d, "status_code", JStr(<<>>)).t # "str"
         \/ Get(f.d, "severity", JStr(<<>>)).t # "str"

\* some element of the scanner's JSON output makes the traversal raise
ElementRaises(scanner) ==
    LET data == raw[scanner].data
    IN  /\ ReachedParser(scanner)
        /\ raw[scanner].kind = "json"
        /\ IF data.t = "list"
           THEN \E i \in 1..Len(data.l) :
                    IF scanner = "prowler" THEN RaisingFinding(data.l[i])
                    ELSE RaisingResult(data.l[i])
           ELSE IF data.t = "map" /\ scanner = "cloudsploit"
           THEN \E i \in 1..Len(data.m) : RaisingValue(data.m[i].value)
           ELSE FALSE

\* C27: when an element of a scanner's output makes the traversal raise, the
\* scanner's result is an error result without failed, severity counters or
\* findings, whatever valid results precede the element, and the provider
\* summary holds only what the other scanner contributed.
C27_AllOrNothing ==
    \A scanner \in OrchestratedScanners :
        ElementRaises(scanner) =>
            LET r == provider_results[scanner]
            IN  /\ IsError(r)
                /\ DOMAIN r \cap (FiveCounters \cup {"findings"}) = {}
                /\ pc = "return" =>
                       summary = Contribution(
                                     provider_results[OtherScanner(scanner)])

\* the CloudSploit output holds a FAIL result with a valid severity and then
\* a FAIL result whose severity is a number; Prowler reported one finding
C27_Witness ==
    /\ pc = "return"
    /\ ElementRaises("cloudsploit")
    /\ raw.cloudsploit.data.t = "list"
    /\ Len(raw.cloudsploit.data.l) = 2
    /\ ~RaisingResult(raw.cloudsploit.data.l[1])
    /\ ReadStatus(raw.cloudsploit.data.l[1]) = JStr(FAIL)
    /\ RaisingResult(raw.cloudsploit.data.l[2])
    /\ IsError(provider_results.cloudsploit)
    /\ Parsed(provider_results.prowler)
    /\ Len(provider_results.prowler.findings) = 1
    /\ summary.failed = 1

----------------------------------------------------------------------------
(* Claims about results without a status *)

\* the result objects of the CloudSploit output that have no status field:
\* array elements and nested results (a keyed single result is one that has
\* the field)
WithoutStatus ==
    SelectSeq(RawResults("cloudsploit"),
              LAMBDA res : "status" \notin DOMAIN res.d)

\* the result objects that have a status field with the value FAIL, WARN or
\* UNKNOWN
WithRetainedStatus ==
    SelectSeq(RawResults("cloudsploit"),
              LAMBDA res : /\ "status" \in DOMAIN res.d
                           /\ res.d["status"] \in RetainedStatuses)

UnknownFindings(r) == SelectSeq(Findings(r), LAMBDA f : f.status = UNKNOWN)

----------------------------------------------------------------------------
(* Claims about the counters of the array/keyed-object adapter *)

\* C29: every result of the CloudSploit adapter that is not an error, for
\* outputs with UNKNOWN statuses as for any other, has failed equal to the
\* number of its findings and to critical + high + medium + low.
C29_FailedIsFindingsIsSum ==
    LET r == provider_results.cloudsploit
    IN  (Parsed(r) /\ ~IsError(r)) =>
            /\ r.failed = Len(Findings(r))
            /\ r.failed = SeveritySum(r)

\* an array with a result of status UNKNOWN and a result without a status
\* gave failed = 2, two findings and severities that sum to 2
C29_Witness ==
    /\ CloudsploitParsed
    /\ raw.cloudsploit.data.t = "list"
    /\ Len(raw.cloudsploit.data.l) = 2
    /\ ReadStatus(raw.cloudsploit.data.l[1]) = JStr(UNKNOWN)
    /\ "status" \in DOMAIN raw.cloudsploit.data.l[1].d
    /\ "status" \notin DOMAIN raw.cloudsploit.data.l[2].d
    /\ provider_results.cloudsploit.failed = 2
    /\ Len(provider_results.cloudsploit.findings) = 2
    /\ SeveritySum(provider_results.cloudsploit) = 2

----------------------------------------------------------------------------
(* Claims about the exit status and the risk level *)

\* both the risk level and the exit status have been derived from the counts
Judged == risk # NoRisk /\ exit_status # NoExit

\* C30: for the same overall counts, a risk level of Critical or High comes
\* with the exit status 1, and the exit status 0 comes with the risk level
\* Low or No Issues, or with Medium when medium >= 10 and high = 0.
C30_ExitAgreesWithRisk ==
    Judged =>
        /\ risk \in {"Critical Risk", "High Risk"} => exit_status = 1
        /\ exit_status = 0 =>
               \/ risk \in {"Low Risk", "No Issues"}
               \/ /\ risk = "Medium Risk"
                  /\ overall.medium >= 10
                  /\ overall.high = 0

\* ten medium findings alone: Medium Risk and the exit status 0
C30_Witness ==
    /\ Judged
    /\ overall.critical = 0
    /\ overall.high = 0
    /\ overall.medium = 10
    /\ risk = "Medium Risk"
    /\ exit_status = 0

====
